---- MODULE Spec2Model ----
(***************************************************************************)
(* Model of scripts/parse_sitemap.py: the threaded, layer-by-layer sitemap *)
(* crawler.  threaded_crawler is the scheduler (one sequential thread);    *)
(* every future of the ThreadPoolExecutor runs fetch_sitemap_urls.  The    *)
(* module-level sets checked_sitemaps and all_urls and the Lock guarding   *)
(* them are the shared state.  The web (what requests.get returns for each *)
(* sitemap URL) is the environment: it is drawn in Init and fixed for the  *)
(* run.                                                                    *)
(*                                                                         *)
(* A second, independent program is modelled after it: load_urls and the   *)
(* loop of process_urls of scripts/parse_endpoint.py (ProberSpec).  Each   *)
(* specification leaves the other program's variables as they start.       *)
(***************************************************************************)
EXTENDS Integers, Sequences, FiniteSets, TLC

\* ------------------------------------------------------------------ bounds
\* Largest --max-depth, --max-urls and --retries drawn in Init, and the size
\* of the worker pool (--threads).
MaxDepthBound == 2
MaxUrlsBound == 4
MaxRetries == 2
Threads == 2
\* Largest number of calls of threaded_crawler in one process (TwoRunsSpec).
MaxCalls == 2
\* Largest number of lines of the endpoint prober's input file (ProberSpec).
MaxLines == 4

\* ------------------------------------------------------- the document graph
\* The sitemap documents of the mock web: URL -> its <url><loc> entries (in
\* document order) and its <sitemap><loc> entries.
\*   seeds: r1.xml, r2.xml, r1.xml (a duplicate seed)
\*   r1.xml      leaf a      nested sub.xml.gz
\*   r2.xml      leaves b, a nested mid.xml, r2.xml (itself)
\*   mid.xml     (no leaf)   nested sub.xml.gz
\*   sub.xml.gz  leaf b      nested deep.xml, r1.xml (a cycle)
\*   deep.xml    leaf c
\* sub.xml.gz is at distance 1 through r1.xml and 2 through mid.xml;
\* deep.xml is at distance 2.
SitemapUrls == {"r1.xml", "r2.xml", "mid.xml", "sub.xml.gz", "deep.xml"}

Seeds == <<"r1.xml", "r2.xml", "r1.xml">>

UrlLocs(u) ==
    CASE u = "r1.xml" -> <<"a">>
      [] u = "r2.xml" -> <<"b", "a">>
      [] u = "mid.xml" -> <<>>
      [] u = "sub.xml.gz" -> <<"b">>
      [] OTHER -> <<"c">>

SitemapLocs(u) ==
    CASE u = "r1.xml" -> <<"sub.xml.gz">>
      [] u = "r2.xml" -> <<"mid.xml", "r2.xml">>
      [] u = "mid.xml" -> <<"sub.xml.gz">>
      [] u = "sub.xml.gz" -> <<"deep.xml", "r1.xml">>
      [] OTHER -> <<>>

\* sitemap_url.endswith(".gz")
EndsWithGz(u) == u = "sub.xml.gz"

\* What the server answers for one sitemap URL, the same on every request
\* except for "flaky", whose first request fails.
\*   xml       200, plain well-formed XML
\*   gz        200, gzip-compressed XML, no gzip Content-Type
\*   gz_ct     200, gzip-compressed XML, Content-Type names gzip
\*   malformed 200, plain bytes that are not well-formed XML
\*   http500   a response with status 500
\*   timeout   requests.get raises on every request
\*   flaky     requests.get raises on the first request, then the default
\*   empty     200, a well-formed document with no <url> and no <sitemap>
\*             child, encoded as the default
Kinds ==
    {"xml", "gz", "gz_ct", "malformed", "http500", "timeout", "flaky",
     "empty"}

DefaultKind(u) == IF EndsWithGz(u) THEN "gz" ELSE "xml"

DefaultWeb == [u \in SitemapUrls |-> DefaultKind(u)]

\* The sitemaps whose response takes every kind: a seed with a plain name
\* and a nested sitemap with a .gz name.
VariedUrls == {"r1.xml", "sub.xml.gz"}

\* The webs a run is checked against: every sitemap answers with its
\* well-formed default, or one of the two sitemaps above answers in any of
\* the ways above, or any one sitemap answers with a server error.
Webs ==
    {DefaultWeb}
      \cup {[DefaultWeb EXCEPT ![u] = k] : u \in VariedUrls, k \in Kinds}
      \cup {[DefaultWeb EXCEPT ![u] = "http500"] : u \in SitemapUrls}

\* requests.get raised (connection error, timeout) on this attempt.
GetRaises(kind, attempt) ==
    \/ kind = "timeout"
    \/ kind = "flaky" /\ attempt = 1

StatusCode(kind) == IF kind = "http500" THEN 500 ELSE 200

ContentTypeGzip(kind) == kind = "gz_ct"

\* The response body: "gzip" (compressed well-formed XML), "xml" or "bad".
Body(u, kind) ==
    CASE kind \in {"gz", "gz_ct"} -> "gzip"
      [] kind = "malformed" -> "bad"
      [] kind \in {"flaky", "empty"} ->
            IF EndsWithGz(u) THEN "gzip" ELSE "xml"
      [] OTHER -> "xml"

\* The <url><loc> and <sitemap><loc> entries of the document the server
\* answers with.
DocUrlLocs(u, kind) == IF kind = "empty" THEN <<>> ELSE UrlLocs(u)

DocSitemapLocs(u, kind) == IF kind = "empty" THEN <<>> ELSE SitemapLocs(u)

\* ------------------------------------------------------------ pure helpers
FromStringNeedsChild(u, kind) ==
    IF DocUrlLocs(u, kind) = <<>> /\ DocSitemapLocs(u, kind) = <<>>
    THEN "raise_parse" ELSE "ok"

\* ET.fromstring on well-formed XML returns the root element, whatever
\* its children.
FromString(u, kind) == "ok"

\* if "gzip" in content_type or sitemap_url.endswith(".gz")
NeedsDecompress(u, kind) == ContentTypeGzip(kind) \/ EndsWithGz(u)

\* One pass of the try block up to and including ET.fromstring:
\* "status" (the early return), "raise_get", "raise_gzip", "raise_parse"
\* (an exception leaves the try block) or "ok" (root is parsed).
Outcome(u, kind, attempt) ==
    IF GetRaises(kind, attempt) THEN "raise_get"
    ELSE IF StatusCode(kind) # 200 THEN "status"
    ELSE IF NeedsDecompress(u, kind)
         THEN (CASE Body(u, kind) = "gzip" -> FromString(u, kind)
                 [] OTHER -> "raise_gzip")
         ELSE (CASE Body(u, kind) = "xml" -> FromString(u, kind)
                 [] OTHER -> "raise_parse")

EntersLeafLoopOnParseError(outcome) == outcome \in {"ok", "raise_parse"}

\* The loop over <url> entries (line 57) comes after ET.fromstring has
\* returned the root of the whole document (line 52).
EntersLeafLoop(outcome) == outcome = "ok"

CaughtOnlyRequestErrors(outcome) == outcome = "raise_get"

\* except Exception: every exception raised in the try block is caught.
Caught(outcome) == outcome \in {"raise_get", "raise_gzip", "raise_parse"}

ClaimRejectedNoDedup(u, checked, urls, cap) == Cardinality(urls) >= cap

ClaimRejectedNoCap(u, checked, urls, cap) == u \in checked

\* if sitemap_url in checked_sitemaps or len(all_urls) >= max_urls: return
ClaimRejected(u, checked, urls, cap) ==
    u \in checked \/ Cardinality(urls) >= cap

CanAddUrlOffByOne(url, urls, cap) ==
    url \notin urls /\ Cardinality(urls) <= cap

CanAddUrlOneShort(url, urls, cap) ==
    url \notin urls /\ Cardinality(urls) + 1 < cap

\* if url not in all_urls and len(all_urls) < max_urls
CanAddUrl(url, urls, cap) ==
    url \notin urls /\ Cardinality(urls) < cap

ScheduleNestedInclusive(depth, maxd) == depth <= maxd

\* if depth < max_depth
ScheduleNested(depth, maxd) == depth < maxd

NestedOfSameDepth(locs, depth, maxd) ==
    IF depth < maxd
    THEN [k \in 1..Len(locs) |-> <<locs[k], depth>>]
    ELSE <<>>

\* The list fetch_sitemap_urls returns: (nested_url, depth + 1) for every
\* <sitemap><loc>, or nothing when depth has reached max_depth.
NestedOf(locs, depth, maxd) ==
    IF ScheduleNested(depth, maxd)
    THEN [k \in 1..Len(locs) |-> <<locs[k], depth + 1>>]
    ELSE <<>>

CapReachedOneEarly(urls, cap) == Cardinality(urls) + 1 >= cap

\* if len(all_urls) >= max_urls (line 112, read without the lock)
CapReached(urls, cap) == Cardinality(urls) >= cap

NextPassAtGet == "fetch"

\* A further pass of the retry loop begins at the loop body's first
\* statement, the sleep of line 38.
NextPassAt == "attempt"

HasNextAttemptInclusive(attempt, n) == attempt <= n

\* for attempt in range(1, retries + 1): another pass follows this one.
HasNextAttempt(attempt, n) == attempt < n

LayerResolvedEarly(batch) == TRUE

\* The for loop over as_completed(current_batch) ends when every future of
\* the batch has been yielded.
LayerResolved(batch) == batch = {}

ReplacedBy(urls, url) == {url}

\* all_urls.add(url)
AddedTo(urls, url) == urls \cup {url}

AllFinishedNoWait(fs) == TRUE

\* ThreadPoolExecutor.__exit__ is shutdown(wait=True): it returns when every
\* submitted future has run.
AllFinished(fs) == \A i \in 1..Len(fs) : fs[i].pc = "done"

LockIgnored(l) == TRUE

\* Lock.acquire (entering "with lock:") returns only when the lock is free.
LockFree(l) == l = 0

LockHeldAfterReturn(i) == i

\* The return of line 28 leaves the with block of line 26: the lock is
\* released.
LockAfterReturn(i) == 0

LockKeptOnReturn(i) == i

\* "with lock:" releases the lock on every way out of the block, the early
\* return included.  0 is the free lock.
LockAfterWith(i) == 0

\* ------------------------------------------------------------------- state
VARIABLES
    max_depth,         \* threaded_crawler's parameters
    max_urls,
    retries,
    web,               \* the environment: sitemap URL -> kind of response
    checked_sitemaps,  \* module-level set
    all_urls,          \* module-level set
    lock,              \* 0 (free) or the future holding the Lock
    queue,             \* the scheduler's frontier: <<url, depth>> pairs
    futures,           \* every future submitted, in submission order
    current_batch,     \* futures of the layer as_completed has yet to yield
    spc,               \* the scheduler's position in threaded_crawler
    input,             \* the file named by --input
    mpc,               \* main's position: read | crawl | exit
    output,            \* the lines written to the file named by --output
    written,           \* the output file was written
    exit_status,       \* the process's exit status, once mpc = "exit"
    calls              \* calls of threaded_crawler made in this process

\* parse_endpoint.py
VARIABLES
    infile,                \* the file named by --input: exists, lines
    loaded_urls,           \* what load_urls returned (urls in process_urls)
    idx,                   \* URLs of the list the for loop has been through
    prefix_path_status,    \* key -> its last statuses (deque(maxlen=3))
    skipped_prefix_path,   \* the keys on the skip list
    results,               \* per URL gone through: its status, or "skipped"
                           \* when check_url was not called (history)
    ppc                    \* idle | load | loop | quit | exit1

probervars == <<infile, loaded_urls, idx, prefix_path_status,
                skipped_prefix_path, results, ppc>>

vars == <<max_depth, max_urls, retries, web, checked_sitemaps, all_urls, lock,
          queue, futures, current_batch, spc, input, mpc, output, written,
          exit_status, calls, probervars>>

params == <<max_depth, max_urls, retries, web>>

mainvars == <<input, mpc, output, written, exit_status, calls>>

\* A future and the call of fetch_sitemap_urls it runs.
\*   pc       pending | claim | claim_cs | attempt | fetch | url | url_cs |
\*            url_add | nested | done
\*   ok       the value of the condition of line 62 for the current entry
\*            (FALSE outside the with block)
\*   attempt  the loop variable of "for attempt in range(1, retries + 1)"
\*   todo     the <url><loc> entries the "Add URLs" loop has yet to visit
\*   result   the value returned (None and [] are both <<>>: line 110 treats
\*            them alike)
\*   exc      the call ended by an exception, which future.result() re-raises
\*   claimed  the call passed the claim step (history)
\*   slept, fetched  number of time.sleep and requests.get calls (history)
NewFuture(u, d) ==
    [url |-> u, depth |-> d, pc |-> "pending", attempt |-> 0, todo |-> <<>>,
     ok |-> FALSE, result |-> <<>>, exc |-> FALSE, claimed |-> FALSE,
     slept |-> 0, fetched |-> 0]

Futs == 1..Len(futures)

\* The kinds of input file: one that cannot be opened, one none of whose
\* lines matches the sitemap pattern, and one listing the seeds.
Inputs == {"unreadable", "no_sitemaps", "seeds"}

\* The stripped lines of the input file that match the pattern of line 149.
SitemapLines(inp) == IF inp = "seeds" THEN Seeds ELSE <<>>

\* queue = [(url, 0) for url in sitemap_urls]
SeedQueue(urls) == [k \in 1..Len(urls) |-> <<urls[k], 0>>]

\* main returns (lines 154, 158 and the end of main): the interpreter exits
\* with status 0.  An uncaught exception ends it with status 1.
ExitStatusOnReturn == 0

ExitStatusOnException == 1

\* Python's order of the leaf URLs (they are strings).
LeafRank(u) == CASE u = "a" -> 1 [] u = "b" -> 2 [] OTHER -> 3

\* sorted(all_urls)
RECURSIVE Sorted(_)
Sorted(S) ==
    IF S = {} THEN <<>>
    ELSE LET m == CHOOSE x \in S : \A y \in S : LeafRank(x) <= LeafRank(y)
         IN <<m>> \o Sorted(S \ {m})

\* What a call of threaded_crawler finds in a module-level set: nothing in
\* threaded_crawler assigns or clears checked_sitemaps or all_urls.
GlobalAtCall(s) == s

Running == {i \in Futs : futures[i].pc \notin {"pending", "done"}}

\* parse_endpoint.py is not run.
ProberNotRun ==
    /\ infile = [exists |-> FALSE, lines |-> <<>>]
    /\ loaded_urls = <<>>
    /\ idx = 0
    /\ prefix_path_status = <<>>
    /\ skipped_prefix_path = {}
    /\ results = <<>>
    /\ ppc = "idle"

Init ==
    /\ ProberNotRun
    /\ max_depth \in 0..MaxDepthBound
    /\ max_urls \in 0..MaxUrlsBound
    /\ retries \in 0..MaxRetries
    /\ web \in Webs
    /\ checked_sitemaps = {}
    /\ all_urls = {}
    /\ lock = 0
    /\ queue = <<>>
    /\ futures = <<>>
    /\ current_batch = {}
    /\ spc = "idle"
    /\ input \in Inputs
    /\ mpc = "read"
    /\ output = <<>>
    /\ written = FALSE
    /\ exit_status = 0
    /\ calls = 0

\* ----------------------------------------------------------- main's steps
\* Lines 143-168: read the input file and keep the lines that look like a
\* sitemap reference; return when the file cannot be read or no line is
\* kept, otherwise call threaded_crawler (line 86 builds the queue).
ReadInput ==
    /\ mpc = "read"
    /\ IF input = "unreadable" \/ SitemapLines(input) = <<>>
       THEN /\ mpc' = "exit"
            /\ exit_status' = ExitStatusOnReturn
            /\ UNCHANGED <<queue, spc, calls>>
       ELSE /\ mpc' = "crawl"
            /\ queue' = SeedQueue(SitemapLines(input))
            /\ spc' = "loop"
            /\ calls' = 1
            /\ UNCHANGED exit_status
    /\ UNCHANGED <<params, probervars, checked_sitemaps, all_urls, lock,
                   futures, current_batch, input, output, written>>

\* Lines 170-177 and the end of the script: write sorted(all_urls), one URL
\* per line (an error opening or writing the file is caught and logged),
\* and return.  An exception that left threaded_crawler is not caught by
\* main: the interpreter exits with status 1.
WriteOutput ==
    /\ mpc = "crawl"
    /\ spc \in {"returned", "aborted"}
    /\ mpc' = "exit"
    /\ IF spc = "aborted"
       THEN /\ exit_status' = ExitStatusOnException
            /\ UNCHANGED <<output, written>>
       ELSE /\ exit_status' = ExitStatusOnReturn
            /\ \E ok \in BOOLEAN :
                  /\ written' = ok
                  /\ output' = IF ok THEN Sorted(all_urls) ELSE <<>>
    /\ UNCHANGED <<params, probervars, checked_sitemaps, all_urls, lock,
                   queue, futures, current_batch, spc, input, calls>>

\* A further call of threaded_crawler by the same process, with the same
\* arguments: queue and futures are locals of the call, checked_sitemaps,
\* all_urls and lock are the module's (lines 12-14) and are left as they are.
CallAgain ==
    /\ mpc = "crawl"
    /\ spc = "returned"
    /\ calls < MaxCalls
    /\ calls' = calls + 1
    /\ queue' = SeedQueue(SitemapLines(input))
    /\ futures' = <<>>
    /\ current_batch' = {}
    /\ spc' = "loop"
    /\ checked_sitemaps' = GlobalAtCall(checked_sitemaps)
    /\ all_urls' = GlobalAtCall(all_urls)
    /\ UNCHANGED <<params, probervars, lock, input, mpc, output, written,
                   exit_status>>

\* --------------------------------------------------- the scheduler's steps
\* while queue: submit every task of the layer, then clear the queue.
Submit ==
    /\ spc = "loop"
    /\ queue # <<>>
    /\ futures' = futures \o [k \in 1..Len(queue) |->
                                 NewFuture(queue[k][1], queue[k][2])]
    /\ current_batch' = (Len(futures) + 1)..(Len(futures) + Len(queue))
    /\ queue' = <<>>
    /\ spc' = "as_completed"
    /\ UNCHANGED <<params, probervars, mainvars, checked_sitemaps, all_urls,
                   lock>>

\* The while loop ends with an empty queue: the with block is left.
LoopExit ==
    /\ spc = "loop"
    /\ queue = <<>>
    /\ spc' = "shutdown"
    /\ UNCHANGED <<params, probervars, mainvars, checked_sitemaps, all_urls,
                   lock, queue, futures, current_batch>>

\* One iteration of "for future in as_completed(current_batch)".
Collect(i) ==
    /\ spc = "as_completed"
    /\ i \in current_batch
    /\ futures[i].pc = "done"
    /\ IF futures[i].exc
       THEN /\ spc' = "raise"
            /\ UNCHANGED <<queue, current_batch>>
       ELSE /\ queue' = queue \o futures[i].result
            /\ IF CapReached(all_urls, max_urls)
               THEN /\ spc' = "shutdown"
                    /\ UNCHANGED current_batch
               ELSE /\ current_batch' = current_batch \ {i}
                    /\ spc' = IF LayerResolved(current_batch') THEN "loop"
                              ELSE "as_completed"
    /\ UNCHANGED <<params, probervars, mainvars, checked_sitemaps, all_urls,
                   lock, futures>>

\* Leaving "with ThreadPoolExecutor(...)": shutdown(wait=True) returns once
\* every submitted future has run; then the return (or the exception)
\* reaches the caller.
Shutdown ==
    /\ spc \in {"shutdown", "raise"}
    /\ AllFinished(futures)
    /\ spc' = IF spc = "raise" THEN "aborted" ELSE "returned"
    /\ UNCHANGED <<params, probervars, mainvars, checked_sitemaps, all_urls,
                   lock, queue, futures, current_batch>>

\* ------------------------------------------------------ the workers' steps
\* A free worker thread takes the oldest pending work item.
Start(i) ==
    /\ futures[i].pc = "pending"
    /\ \A j \in Futs : j < i => futures[j].pc # "pending"
    /\ Cardinality(Running) < Threads
    /\ futures' = [futures EXCEPT ![i].pc = "claim"]
    /\ UNCHANGED <<params, probervars, mainvars, checked_sitemaps, all_urls,
                   lock, queue, current_batch, spc>>

\* with lock: (line 26)
AcquireClaim(i) ==
    /\ futures[i].pc = "claim"
    /\ LockFree(lock)
    /\ lock' = i
    /\ futures' = [futures EXCEPT ![i].pc = "claim_cs"]
    /\ UNCHANGED <<params, probervars, mainvars, checked_sitemaps, all_urls,
                   queue, current_batch, spc>>

\* Lines 27-29 and the head of the retry loop: the claim is rejected (return
\* None) or the URL is added to checked_sitemaps; with retries < 1 the loop
\* body never runs and the call ends at line 80.
Claim(i) ==
    /\ futures[i].pc = "claim_cs"
    /\ LET f == futures[i] IN
       IF ClaimRejected(f.url, checked_sitemaps, all_urls, max_urls)
       THEN /\ futures' = [futures EXCEPT ![i].pc = "done"]
            /\ lock' = LockAfterReturn(i)
            /\ UNCHANGED checked_sitemaps
       ELSE /\ checked_sitemaps' = checked_sitemaps \cup {f.url}
            /\ lock' = LockAfterWith(i)
            /\ futures' = [futures EXCEPT
                              ![i].claimed = TRUE,
                              ![i].attempt = IF retries >= 1 THEN 1 ELSE 0,
                              ![i].pc = IF retries >= 1 THEN "attempt"
                                        ELSE "done"]
    /\ UNCHANGED <<params, probervars, mainvars, all_urls, queue,
                   current_batch, spc>>

\* Line 38, the first statement of a pass of the retry loop:
\* time.sleep(delay).
Sleep(i) ==
    /\ futures[i].pc = "attempt"
    /\ futures' = [futures EXCEPT ![i].slept = @ + 1, ![i].pc = "fetch"]
    /\ UNCHANGED <<params, probervars, mainvars, checked_sitemaps, all_urls,
                   lock, queue, current_batch, spc>>

\* The rest of the pass, lines 39-54 and 77-80: get, status check,
\* decompression, parse.  Nothing shared is touched.
Attempt(i) ==
    /\ futures[i].pc = "fetch"
    /\ LET f == futures[i]
           o == Outcome(f.url, web[f.url], f.attempt)
           g == [f EXCEPT !.fetched = @ + 1]
       IN futures' = [futures EXCEPT ![i] =
            CASE o = "status" -> [g EXCEPT !.pc = "done"]
              [] EntersLeafLoop(o) ->
                    [g EXCEPT !.todo = DocUrlLocs(f.url, web[f.url]),
                              !.pc = IF DocUrlLocs(f.url, web[f.url]) = <<>>
                                     THEN "nested"
                                     ELSE "url"]
              [] OTHER ->
                    IF ~Caught(o)
                    THEN [g EXCEPT !.pc = "done", !.exc = TRUE]
                    ELSE IF HasNextAttempt(f.attempt, retries)
                    THEN [g EXCEPT !.attempt = @ + 1, !.pc = NextPassAt]
                    ELSE [g EXCEPT !.pc = "done"]]
    /\ UNCHANGED <<params, probervars, mainvars, checked_sitemaps, all_urls,
                   lock, queue, current_batch, spc>>

\* with lock: (line 61)
AcquireUrl(i) ==
    /\ futures[i].pc = "url"
    /\ LockFree(lock)
    /\ lock' = i
    /\ futures' = [futures EXCEPT ![i].pc = "url_cs"]
    /\ UNCHANGED <<params, probervars, mainvars, checked_sitemaps, all_urls,
                   queue, current_batch, spc>>

\* Line 62 for the next <url><loc> entry: the condition is evaluated.
CheckUrl(i) ==
    /\ futures[i].pc = "url_cs"
    /\ futures' = [futures EXCEPT
                      ![i].ok = CanAddUrl(Head(futures[i].todo), all_urls,
                                          max_urls),
                      ![i].pc = "url_add"]
    /\ UNCHANGED <<params, probervars, mainvars, checked_sitemaps, all_urls,
                   lock, queue, current_batch, spc>>

\* Line 63 and the end of the with block: the URL is added when the
\* condition held, and the lock is released.
AddUrl(i) ==
    /\ futures[i].pc = "url_add"
    /\ LET f == futures[i]
           url == Head(f.todo)
       IN /\ all_urls' = IF f.ok THEN AddedTo(all_urls, url) ELSE all_urls
          /\ futures' = [futures EXCEPT
                            ![i].todo = Tail(f.todo),
                            ![i].ok = FALSE,
                            ![i].pc = IF Tail(f.todo) = <<>> THEN "nested"
                                      ELSE "url"]
    /\ lock' = LockAfterWith(i)
    /\ UNCHANGED <<params, probervars, mainvars, checked_sitemaps, queue,
                   current_batch, spc>>

\* Lines 66-75: collect the nested sitemaps and return them.
Nested(i) ==
    /\ futures[i].pc = "nested"
    /\ futures' = [futures EXCEPT
                      ![i].result =
                          NestedOf(DocSitemapLocs(futures[i].url,
                                                  web[futures[i].url]),
                                   futures[i].depth, max_depth),
                      ![i].pc = "done"]
    /\ UNCHANGED <<params, probervars, mainvars, checked_sitemaps, all_urls,
                   lock, queue, current_batch, spc>>

Next ==
    \/ Submit
    \/ LoopExit
    \/ \E i \in Futs : Collect(i)
    \/ Shutdown
    \/ \E i \in Futs : Start(i)
    \/ \E i \in Futs : AcquireClaim(i)
    \/ \E i \in Futs : Claim(i)
    \/ \E i \in Futs : Sleep(i)
    \/ \E i \in Futs : Attempt(i)
    \/ \E i \in Futs : AcquireUrl(i)
    \/ \E i \in Futs : CheckUrl(i)
    \/ \E i \in Futs : AddUrl(i)
    \/ \E i \in Futs : Nested(i)
    \/ ReadInput
    \/ WriteOutput

Spec == Init /\ [][Next]_vars

\* The process calls threaded_crawler up to MaxCalls times before it writes.
TwoRunsNext == Next \/ CallAgain

TwoRunsSpec == Init /\ [][TwoRunsNext]_vars

\* Workers and the scheduler are threads the operating system schedules
\* fairly, and every requests.get returns or raises within its timeout: a
\* step that can be taken is eventually taken.
FairSpec == Spec /\ WF_vars(Next)

\* ------------------------------------------ parse_endpoint.py: the prober
\* The lines an input file is made of: a whitespace-only line, two URLs
\* that differ in their query only, a URL written with and without
\* surrounding blanks, and a URL whose path matches a skip pattern.
InputLines ==
    {"  ", "https://h/p?x=1", "https://h/p?x=2", "https://h/q",
     " https://h/q ", "https://h/tag/t"}

\* line.strip()
Strip(line) ==
    CASE line = "  " -> ""
      [] line = " https://h/q " -> "https://h/q"
      [] OTHER -> line

\* [line.strip() for line in f if line.strip()]
RECURSIVE StrippedNonEmpty(_)
StrippedNonEmpty(lines) ==
    IF lines = <<>> THEN <<>>
    ELSE IF Strip(Head(lines)) # ""
    THEN <<Strip(Head(lines))>> \o StrippedNonEmpty(Tail(lines))
    ELSE StrippedNonEmpty(Tail(lines))

\* get_path_without_query(url): the path up to the first of & ; ?
PathWithoutQuery(url) ==
    CASE url \in {"https://h/p?x=1", "https://h/p?x=2"} -> "/p"
      [] url = "https://h/q" -> "/q"
      [] OTHER -> "/tag/t"

\* get_common_prefix(url): scheme, host and the parent directory (the only
\* part, for a path of one part).
CommonPrefix(url) ==
    CASE url \in {"https://h/p?x=1", "https://h/p?x=2"} -> "https://h/p"
      [] url = "https://h/q" -> "https://h/q"
      [] OTHER -> "https://h/tag"

PrefixPathKey(url) == <<CommonPrefix(url), PathWithoutQuery(url)>>

\* should_skip_path(url, SKIP_PATTERNS): the path matches */tag/*, */id/*
\* or */en/*.
ShouldSkipPath(url) == url = "https://h/tag/t"

\* Statuses check_url returns (of "ok", "not_found", "waf_blocked",
\* "empty_response", "dns_error" and "error: ...").
Statuses == {"ok", "not_found", "empty_response"}

\* deque(maxlen=3)
DequeMaxLen == 3

\* len(recent) == 3
SkipCount == 3

\* deque.append on a bounded deque: the oldest entry is dropped when full.
DequeAppend(q, s) ==
    IF Len(q) >= DequeMaxLen THEN Tail(q) \o <<s>> ELSE q \o <<s>>

\* len(recent) == 3 and len(set(recent)) == 1
ThreeAlike(recent) ==
    Len(recent) = SkipCount
      /\ Cardinality({recent[k] : k \in 1..Len(recent)}) = 1

\* prefix_path_status[key] of the defaultdict: an empty deque when absent.
Recent(key) ==
    IF key \in DOMAIN prefix_path_status THEN prefix_path_status[key]
    ELSE <<>>

crawlervars ==
    <<params, mainvars, checked_sitemaps, all_urls, lock, queue, futures,
      current_batch, spc>>

\* The crawler is not run: its variables stay as one of its initial states.
CrawlerNotRun ==
    /\ max_depth = 0
    /\ max_urls = 0
    /\ retries = 0
    /\ web = DefaultWeb
    /\ checked_sitemaps = {}
    /\ all_urls = {}
    /\ lock = 0
    /\ queue = <<>>
    /\ futures = <<>>
    /\ current_batch = {}
    /\ spc = "idle"
    /\ input = "unreadable"
    /\ mpc = "read"
    /\ output = <<>>
    /\ written = FALSE
    /\ exit_status = 0
    /\ calls = 0

ProberInit ==
    /\ CrawlerNotRun
    /\ infile \in
          {[exists |-> FALSE, lines |-> <<>>]}
            \cup {[exists |-> TRUE, lines |-> s] :
                     s \in UNION {[1..n -> InputLines] : n \in 0..MaxLines}}
    /\ loaded_urls = <<>>
    /\ idx = 0
    /\ prefix_path_status = <<>>
    /\ skipped_prefix_path = {}
    /\ results = <<>>
    /\ ppc = "load"

\* main, line 319: urls = load_urls(args.input).  A missing file ends the
\* process (sys.exit(1)).
LoadUrls ==
    /\ ppc = "load"
    /\ IF infile.exists
       THEN /\ loaded_urls' = StrippedNonEmpty(infile.lines)
            /\ ppc' = "loop"
       ELSE /\ ppc' = "exit1"
            /\ UNCHANGED loaded_urls
    /\ UNCHANGED <<crawlervars, infile, idx, prefix_path_status,
                   skipped_prefix_path, results>>

\* One pass of the for loop of process_urls, lines 272-307.
Iterate ==
    /\ ppc = "loop"
    /\ idx < Len(loaded_urls)
    /\ idx' = idx + 1
    /\ LET url == loaded_urls[idx + 1]
           key == PrefixPathKey(url)
       IN IF ShouldSkipPath(url) \/ key \in skipped_prefix_path
          THEN /\ results' = Append(results, "skipped")
               /\ UNCHANGED <<prefix_path_status, skipped_prefix_path>>
          ELSE IF ThreeAlike(Recent(key))
          THEN /\ skipped_prefix_path' = skipped_prefix_path \cup {key}
               /\ results' = Append(results, "skipped")
               /\ UNCHANGED prefix_path_status
          ELSE \E status \in Statuses :
                  /\ prefix_path_status' =
                        [k \in DOMAIN prefix_path_status \cup {key} |->
                            IF k = key THEN DequeAppend(Recent(key), status)
                            ELSE prefix_path_status[k]]
                  /\ results' = Append(results, status)
                  /\ UNCHANGED skipped_prefix_path
    /\ UNCHANGED <<crawlervars, infile, loaded_urls, ppc>>

\* The loop is over: finally, driver.quit().
Quit ==
    /\ ppc = "loop"
    /\ idx = Len(loaded_urls)
    /\ ppc' = "quit"
    /\ UNCHANGED <<crawlervars, infile, loaded_urls, idx, prefix_path_status,
                   skipped_prefix_path, results>>

ProberNext ==
    \/ LoadUrls
    \/ Iterate
    \/ Quit

ProberSpec == ProberInit /\ [][ProberNext]_vars

\* ------------------------------------------------ vocabulary of the claims
Done(i) == futures[i].pc = "done"

Returned == spc = "returned"

RECURSIVE FetchesUpTo(_, _)
FetchesUpTo(u, n) ==
    IF n = 0 THEN 0
    ELSE (IF futures[n].url = u THEN futures[n].fetched ELSE 0)
         + FetchesUpTo(u, n - 1)

\* How often the fetch adapter was called for sitemap u.
Fetches(u) == FetchesUpTo(u, Len(futures))

Range(s) == {s[k] : k \in 1..Len(s)}

Raising == {"raise_get", "raise_gzip", "raise_parse"}

\* The document of u is fetched and parsed at the first attempt.
FirstTryOk(u) == retries >= 1 /\ Outcome(u, web[u], 1) = "ok"

\* Every fetch and every parse of the run succeeds.
AllOk == \A u \in SitemapUrls : FirstTryOk(u)

\* The document of u can be decoded within the retry budget: some attempt
\* succeeds and every attempt before it fails in a way that is tried again.
Good(u) ==
    \E a \in 1..retries :
        /\ Outcome(u, web[u], a) = "ok"
        /\ \A b \in 1..(a - 1) : Outcome(u, web[u], b) \in Raising

\* The sitemaps at reference distance <= k from a seed along chains whose
\* inner sitemaps all lie in `through`.
RECURSIVE Reach(_, _)
Reach(k, through) ==
    IF k = 0 THEN Range(Seeds)
    ELSE LET R == Reach(k - 1, through)
         IN R \cup {v \in SitemapUrls :
                      \E u \in R \cap through :
                          v \in Range(DocSitemapLocs(u, web[u]))}

GoodSitemaps == {u \in SitemapUrls : Good(u)}

\* Sitemaps within max_depth of a seed in the graph as it is, and along
\* successfully decoded sitemaps only.
Within == Reach(max_depth, SitemapUrls)

WithinDecoded == Reach(max_depth, GoodSitemaps)

LeavesOf(S) == UNION {Range(DocUrlLocs(u, web[u])) : u \in S}

ExpectedUrls == LeavesOf(WithinDecoded \cap GoodSitemaps)

\* ------------------------------------------------------------------ claims
\* C1: the number of collected leaf URLs never exceeds max_urls, in any
\* state of any interleaving.
C1_CapNeverExceeded == Cardinality(all_urls) <= max_urls

\* C1 witness: the set is full and a worker, inside its critical section,
\* is about to be refused a URL that is not yet in it.
C1_Witness ==
    \E i \in Futs :
        /\ futures[i].pc = "url_cs"
        /\ max_urls > 0
        /\ Cardinality(all_urls) = max_urls
        /\ Head(futures[i].todo) \notin all_urls

\* C2: for every sitemap URL at most one task passes the claim step; only a
\* task that passed it fetches, the others end without a fetch.
C2_FetchedAtMostOnce ==
    /\ \A u \in SitemapUrls :
          Cardinality({i \in Futs : futures[i].url = u /\ futures[i].claimed})
            <= 1
    /\ \A i \in Futs :
          /\ futures[i].pc \in {"attempt", "fetch", "url", "url_cs",
                                "url_add", "nested"}
                => futures[i].claimed
          /\ ~futures[i].claimed => futures[i].fetched = 0

\* C2 witness: the two tasks of the duplicate seed ran at the same time: one
\* is past its fetch and still running, the other ended at the claim step.
C2_Witness ==
    \E i, j \in Futs :
        /\ i # j
        /\ futures[i].url = "r1.xml" /\ futures[j].url = "r1.xml"
        /\ futures[i].pc \in {"url", "url_cs", "nested"}
        /\ futures[i].fetched >= 1
        /\ Done(j) /\ ~futures[j].claimed

\* C3: no task of depth > max_depth issues a fetch; with max_depth = 0 only
\* the seeds are fetched.
C3_NoFetchBeyondMaxDepth ==
    /\ \A i \in Futs :
          (futures[i].fetched > 0 \/ futures[i].pc \in {"attempt", "fetch"})
             => futures[i].depth <= max_depth
    /\ max_depth = 0 =>
          \A u \in SitemapUrls : Fetches(u) > 0 => u \in Range(Seeds)

\* C3 witness: with max_depth = 0 a seed was decoded, its nested reference
\* was dropped, and the run ended below the cap without fetching it.
C3_Witness ==
    /\ Returned
    /\ max_depth = 0
    /\ Cardinality(all_urls) < max_urls
    /\ Fetches("r1.xml") = 1
    /\ "a" \in all_urls
    /\ Fetches("sub.xml.gz") = 0

\* C4 (as claimed): a sitemap answering HTTP 500 on every attempt is fetched
\* exactly `retries` times before its task is dropped.
C4_Http500FetchedRetriesTimes ==
    \A i \in Futs :
        (Done(i) /\ futures[i].claimed /\ web[futures[i].url] = "http500")
           => futures[i].fetched = retries

\* C5 (as claimed): a document that is not well-formed XML is fetched once;
\* the parse failure ends the task whatever retry budget remains.
C5_ParseFailureNotRetried ==
    \A i \in Futs :
        (web[futures[i].url] = "malformed"
           /\ Outcome(futures[i].url, web[futures[i].url], 1) = "raise_parse")
           => futures[i].fetched <= 1

\* C6: a failing task never aborts the scheduler, and when the run ends
\* below the cap every sitemap within max_depth along decoded sitemaps was
\* processed and the leaves of every decoded one are in the output.
C6_FailureEndsOnlyItsBranch ==
    /\ spc \notin {"raise", "aborted"}
    /\ \A i \in Futs : ~futures[i].exc
    /\ (Returned /\ Cardinality(all_urls) < max_urls) =>
          \A u \in WithinDecoded :
              /\ u \in checked_sitemaps
              /\ Good(u) => Range(DocUrlLocs(u, web[u])) \subseteq all_urls

\* C6 witness: a seed is malformed (or times out, or answers 500), the run
\* ended below the cap, the other seed's leaves are in the output and the
\* sitemaps below that seed were fetched.
C6_Witness ==
    /\ Returned
    /\ web["r1.xml"] \in {"malformed", "timeout", "http500"}
    /\ Fetches("r1.xml") >= 1
    /\ Cardinality(all_urls) < max_urls
    /\ {"a", "b"} \subseteq all_urls
    /\ Fetches("mid.xml") = 1
    /\ Fetches("sub.xml.gz") = 1

\* The collected set after the leaf URLs `locs` are offered in order.
RECURSIVE AddAll(_, _)
AddAll(locs, urls) ==
    IF locs = <<>> THEN urls
    ELSE AddAll(Tail(locs),
                IF CanAddUrl(Head(locs), urls, max_urls)
                THEN urls \cup {Head(locs)} ELSE urls)

\* The output of the run in which the tasks execute one at a time, in
\* submission order: q is the rest of the layer, nq the next layer.
RECURSIVE SeqRun(_, _, _, _)
SeqRun(q, nq, chk, urls) ==
    IF q = <<>>
    THEN (IF nq = <<>> THEN urls ELSE SeqRun(nq, <<>>, chk, urls))
    ELSE LET u == Head(q)[1]
             d == Head(q)[2]
         IN IF ClaimRejected(u, chk, urls, max_urls)
            THEN SeqRun(Tail(q), nq, chk, urls)
            ELSE IF Good(u)
            THEN SeqRun(Tail(q),
                        nq \o NestedOf(DocSitemapLocs(u, web[u]), d,
                                       max_depth),
                        chk \cup {u}, AddAll(DocUrlLocs(u, web[u]), urls))
            ELSE SeqRun(Tail(q), nq, chk \cup {u}, urls)

SeqOutput ==
    SeqRun([k \in 1..Len(Seeds) |-> <<Seeds[k], 0>>], <<>>, {}, {})

\* C7 (as claimed): the output set is the same in every complete run of one
\* graph and one set of parameters.  The run that executes the tasks one at
\* a time in submission order is one of the runs (C7_SequentialRunHappens is
\* reachable), so the claim says every complete run ends with its output.
C7_SameOutputInEveryRun == Returned => all_urls = SeqOutput

\* A complete run that ends with the sequential run's output while the cap
\* binds: the other side of the pair of runs that differ.
C7_SequentialRunHappens ==
    /\ Returned
    /\ Cardinality(ExpectedUrls) > max_urls
    /\ max_urls > 0
    /\ all_urls = SeqOutput

\* C7 (amended): when the leaf URLs of the sitemaps decoded within max_depth
\* number at most max_urls, every complete run ends with exactly that set.
C7_SameOutputWhenAllFit ==
    (Returned /\ Cardinality(ExpectedUrls) <= max_urls)
        => all_urls = ExpectedUrls

\* C7 witness: a complete run whose expected leaves fill the cap exactly,
\* reached although one sitemap failed.
C7_Witness ==
    /\ Returned
    /\ max_urls >= 2
    /\ Cardinality(ExpectedUrls) = max_urls
    /\ all_urls = ExpectedUrls
    /\ \E u \in checked_sitemaps : ~Good(u)

Terminated ==
    /\ Returned
    /\ \A i \in Futs : Done(i)
    /\ lock = 0

\* C8: every run terminates: eventually main has ended and, when it called
\* threaded_crawler, the scheduler has left it and no worker is running.
C8_Terminates == <>(mpc = "exit" /\ (calls >= 1 => Terminated))

\* C8 witness: a terminated run at the deepest max_depth in which the cycle
\* sub.xml.gz -> r1.xml and the self-reference of r2.xml were both followed
\* and their tasks ended at the claim step.
C8_Witness ==
    /\ Terminated
    /\ max_depth = MaxDepthBound
    /\ \E i \in Futs :
          /\ futures[i].url = "r1.xml" /\ futures[i].depth = 2
          /\ ~futures[i].claimed
    /\ \E i \in Futs :
          /\ futures[i].url = "r2.xml" /\ futures[i].depth = 1
          /\ ~futures[i].claimed

\* C9: when every fetch and parse succeeds and the sitemaps within max_depth
\* hold fewer than max_urls distinct leaves, the output is exactly those
\* leaves and each of those sitemaps, and no other, was fetched once.
C9_CompleteBelowCap ==
    (Returned /\ AllOk /\ Cardinality(LeavesOf(Within)) < max_urls) =>
        /\ all_urls = LeavesOf(Within)
        /\ \A u \in SitemapUrls :
              Fetches(u) = IF u \in Within THEN 1 ELSE 0

\* C9 witness: max_depth = 1 cuts deep.xml off: four sitemaps fetched, the
\* output is {a, b}.
C9_Witness ==
    /\ Returned
    /\ AllOk
    /\ max_depth = 1
    /\ max_urls > 2
    /\ all_urls = {"a", "b"}
    /\ Fetches("sub.xml.gz") = 1
    /\ Fetches("deep.xml") = 0

\* C10: when every fetch and parse succeeds and the sitemaps within
\* max_depth hold at least max_urls distinct leaves, the output has exactly
\* max_urls entries.
C10_ExactFillAtCap ==
    (Returned /\ AllOk /\ Cardinality(LeavesOf(Within)) >= max_urls) =>
        Cardinality(all_urls) = max_urls

\* C10 witness: max_urls = 1 and the run ended with b alone (other runs of
\* the same web end with a alone).
C10_Witness ==
    /\ Returned
    /\ AllOk
    /\ max_urls = 1
    /\ all_urls = {"b"}

\* C11 (as claimed): every call of threaded_crawler starts with an empty
\* visited-sitemap set and an empty collected-URL set.
C11_RegistryEmptyAtEachCall ==
    (calls >= 1 /\ spc = "loop" /\ futures = <<>>) =>
        (checked_sitemaps = {} /\ all_urls = {})

\* C12 (as claimed): the process exits with a non-zero status exactly when
\* the input file cannot be read or holds no sitemap reference.
C12_NonZeroExitOnBadInput ==
    mpc = "exit" =>
        (exit_status # 0 <=>
            (input = "unreadable" \/ SitemapLines(input) = <<>>))

\* C13: a leaf URL enters all_urls exactly when, at the moment of the
\* insertion, it is not already there and the set holds fewer than max_urls
\* entries; no other step changes the set, and no two workers are inside
\* the check-and-insert at once.
C13_AtomicCheckAndInsert ==
    [][/\ \A i \in Futs :
             (futures[i].pc = "url_add" /\ futures'[i].pc # "url_add") =>
                 LET url == Head(futures[i].todo)
                 IN all_urls' =
                        IF url \notin all_urls
                           /\ Cardinality(all_urls) < max_urls
                        THEN all_urls \cup {url}
                        ELSE all_urls
       /\ all_urls' # all_urls =>
             \E i \in Futs : /\ futures[i].pc = "url_add"
                             /\ futures'[i].pc # "url_add"
       /\ Cardinality({i \in Futs :
                          futures[i].pc \in {"url_cs", "url_add"}}) <= 1
      ]_vars

\* C13 witness: below the cap, a worker is about to leave the critical
\* section without adding a URL that another sitemap, still being
\* processed, has already contributed.
C13_Witness ==
    \E i, j \in Futs :
        /\ futures[i].pc = "url_add"
        /\ ~futures[i].ok
        /\ Head(futures[i].todo) \in all_urls
        /\ Cardinality(all_urls) < max_urls
        /\ futures[j].url # futures[i].url
        /\ futures[j].pc = "nested"

\* C14: a task is in the pool only when every task of a smaller depth has
\* completed, and all running tasks have the same depth.
C14_LayerOrdering ==
    /\ \A i, j \in Futs :
          futures[i].depth < futures[j].depth => Done(i)
    /\ \A i, j \in Running : futures[i].depth = futures[j].depth

\* C14 witness: both seeds were fetched and decoded and are done, and a
\* task of the next layer is at its fetch.
C14_Witness ==
    \E i, j, k \in Futs :
        /\ i # j
        /\ futures[i].depth = 0 /\ futures[j].depth = 0
        /\ Done(i) /\ Done(j)
        /\ futures[i].claimed /\ futures[j].claimed
        /\ futures[k].depth = 1
        /\ futures[k].pc = "fetch"

\* The attempts of the retry loop at which the fetch of u is decoded.
Successes(u) == {a \in 1..retries : Outcome(u, web[u], a) = "ok"}

\* Every attempt at u is decoded or fails with a fetch error, a timeout or a
\* decompression failure.
RetryableOnly(u) ==
    \A a \in 1..retries :
        Outcome(u, web[u], a) \in {"raise_get", "raise_gzip", "ok"}

ExpectedAttempts(u) ==
    IF Successes(u) = {} THEN retries
    ELSE CHOOSE a \in Successes(u) : \A b \in Successes(u) : a <= b

\* C15: a task never makes more than retries fetch attempts; a task whose
\* attempts fail only by fetch errors, timeouts or decompression failures
\* has, once it is past its retry loop, made exactly the attempts up to its
\* first success, or retries attempts when none succeeds.
C15_RetryBudget ==
    \A i \in Futs :
        /\ futures[i].fetched <= retries
        /\ (/\ futures[i].claimed
            /\ futures[i].pc \notin {"attempt", "fetch"}
            /\ RetryableOnly(futures[i].url))
              => futures[i].fetched = ExpectedAttempts(futures[i].url)

\* C15 witness: with retries = 2 one task was decoded at its second attempt
\* after a fetch error, and a task in the same run was decoded at its first
\* attempt and made no second one.
C15_Witness ==
    \E i, j \in Futs :
        /\ retries = 2
        /\ web[futures[i].url] = "flaky"
        /\ futures[i].pc = "nested"
        /\ futures[i].fetched = 2
        /\ Done(j)
        /\ futures[j].claimed
        /\ web[futures[j].url] # "flaky"
        /\ futures[j].fetched = 1

AtCap == Cardinality(all_urls) >= max_urls

\* At the cap no sitemap URL is newly claimed, no leaf is admitted and only
\* tasks that passed the claim step fetch.
NoClaimAtCap ==
    AtCap =>
        /\ checked_sitemaps' = checked_sitemaps
        /\ all_urls' = all_urls
        /\ \A i \in Futs :
              /\ futures'[i].claimed = futures[i].claimed
              /\ futures'[i].fetched > futures[i].fetched
                    => futures[i].claimed

\* Tasks that passed the claim step and are running at the cap reach
\* their end.
ClaimedRunToCompletion ==
    (AtCap /\ \E i \in Futs : futures[i].claimed /\ ~Done(i))
        ~> (\A i \in Futs : Done(i))

\* C16 (as claimed): once the cap is reached no sitemap URL is claimed, no
\* unclaimed task fetches, no layer is submitted, no leaf is admitted, and
\* the tasks that passed the claim step run to completion.
C16_NoLayerAtCap ==
    /\ [][NoClaimAtCap /\ (AtCap => Len(futures') = Len(futures))]_vars
    /\ ClaimedRunToCompletion

\* C16 (amended): as claimed, except that the seed layer is submitted even
\* when the cap holds from the start (max_urls = 0); no layer is submitted
\* after it.
C16_NoLaterLayerAtCap ==
    /\ [][/\ NoClaimAtCap
          /\ (AtCap /\ futures # <<>>) => Len(futures') = Len(futures)
         ]_vars
    /\ ClaimedRunToCompletion

\* C16 witness: with max_urls = 1 the task of r2.xml has filled the set with
\* b and goes on with its next leaf a, while another task has not yet
\* reached the claim step for a URL nobody has claimed.
C16_Witness ==
    \E i, j \in Futs :
        /\ max_urls = 1
        /\ all_urls = {"b"}
        /\ futures[i].url = "r2.xml"
        /\ futures[i].pc = "url"
        /\ Head(futures[i].todo) = "a"
        /\ futures[j].pc = "claim"
        /\ futures[j].url \notin checked_sitemaps

\* C17: every fetch attempt of a task is preceded by a wait of its own: a
\* task about to fetch has waited once more than it has fetched, and at any
\* other point it has waited exactly as often as it has fetched.
C17_DelayBeforeEveryFetch ==
    \A i \in Futs :
        futures[i].slept =
            IF futures[i].pc = "fetch" THEN futures[i].fetched + 1
            ELSE futures[i].fetched

\* C17 witness: a task whose first fetch failed has waited a second time
\* and is about to fetch again.
C17_Witness ==
    \E i \in Futs :
        /\ futures[i].pc = "fetch"
        /\ futures[i].fetched = 1
        /\ futures[i].slept = 2

\* Task i waits to enter a with block.
Waiting(i) == futures[i].pc \in {"claim", "url"}

\* A waiting task leaves its wait only by taking the lock.
WaitEndsWithLock ==
    \A i \in Futs : (Waiting(i) /\ futures'[i].pc # futures[i].pc) => lock' = i

\* Task i holds the lock exactly while it is inside a with block.
LockDiscipline ==
    /\ lock \in {0} \cup Futs
    /\ \A i \in Futs :
          lock = i <=> futures[i].pc \in {"claim_cs", "url_cs", "url_add"}

\* C18: the lock is held only inside the two check-and-insert blocks, never
\* by a task that sleeps, fetches, decodes or has ended (the rejected claim
\* included), and every task waiting for the lock gets it: a wait ends
\* only by taking the lock, and no task waits forever.
C18_LockOnlyForCheckAndInsert ==
    /\ []LockDiscipline
    /\ [][WaitEndsWithLock]_vars
    /\ <>[](\A i \in Futs : ~Waiting(i))

\* C18 witness: a task waits with a leaf URL for the lock while another
\* task holds it in the claim step and is about to be rejected.
C18_Witness ==
    \E i, j \in Futs :
        /\ futures[i].pc = "url"
        /\ futures[j].pc = "claim_cs"
        /\ lock = j
        /\ ClaimRejected(futures[j].url, checked_sitemaps, all_urls,
                         max_urls)

\* The length of the shortest chain of references from a seed to u through
\* successfully decoded sitemaps.
Dist(u) ==
    CHOOSE k \in 0..max_depth :
        /\ u \in Reach(k, GoodSitemaps)
        /\ \A j \in 0..(k - 1) : u \notin Reach(j, GoodSitemaps)

\* C19: while the cap is not reached, a task that passed the claim step
\* has the depth of the shortest chain from a seed to its URL through
\* decoded sitemaps; and a run that ends below the cap has claimed every
\* sitemap such a chain reaches within max_depth.
C19_BreadthFirstDepth ==
    ~AtCap =>
        /\ \A i \in Futs :
              futures[i].claimed =>
                  /\ futures[i].url \in WithinDecoded
                  /\ futures[i].depth = Dist(futures[i].url)
        /\ Returned => WithinDecoded \subseteq checked_sitemaps

\* C19 witness: below the cap, sub.xml.gz was claimed at depth 1 (by way of
\* r1.xml), its task of depth 2 (by way of mid.xml) ended at the claim
\* step, and its child deep.xml was claimed at depth 2.
C19_Witness ==
    \E i, j, k \in Futs :
        /\ ~AtCap
        /\ futures[i].url = "sub.xml.gz" /\ futures[i].depth = 1
        /\ futures[i].claimed
        /\ futures[j].url = "sub.xml.gz" /\ futures[j].depth = 2
        /\ Done(j) /\ ~futures[j].claimed
        /\ futures[k].url = "deep.xml" /\ futures[k].depth = 2
        /\ futures[k].claimed

\* C20: no step removes an element of all_urls or of checked_sitemaps, and
\* the lines main has written are exactly the accepted URLs, each once.
C20_AcceptedUrlsStay ==
    /\ [][/\ all_urls \subseteq all_urls'
          /\ checked_sitemaps \subseteq checked_sitemaps']_vars
    /\ [](written => /\ Range(output) = all_urls
                     /\ Len(output) = Cardinality(all_urls))

\* C20 witness: the three leaves, accepted by tasks of three layers, are
\* the three lines of the written output.
C20_Witness ==
    /\ written
    /\ all_urls = {"a", "b", "c"}
    /\ Len(output) = 3

HasGzipMagic(body) == body = "gzip"

\* C22 (as claimed): a received body is decompressed before parsing exactly
\* when it starts with the gzip magic bytes, or the URL ends in .gz, or the
\* response declares a gzip content type.
C22_DecompressOnAnyOfThree ==
    \A i \in Futs :
        LET u == futures[i].url
            k == web[u]
        IN (/\ futures[i].pc = "fetch"
            /\ ~GetRaises(k, futures[i].attempt)
            /\ StatusCode(k) = 200)
              => (NeedsDecompress(u, k) <=>
                    \/ HasGzipMagic(Body(u, k))
                    \/ EndsWithGz(u)
                    \/ ContentTypeGzip(k))

\* C23 (as claimed): a key is on the skip list only when its last three
\* statuses are one and the same failure status, and a URL whose key has
\* had only "ok" results so far is visited.
C23_SkipOnlyAfterThreeFailures ==
    /\ \A key \in skipped_prefix_path :
          /\ Len(Recent(key)) = 3
          /\ \A k \in 1..3 : Recent(key)[k] = Recent(key)[1]
          /\ Recent(key)[1] # "ok"
    /\ \A j \in 1..Len(results) :
          (/\ ~ShouldSkipPath(loaded_urls[j])
           /\ \A i \in 1..(j - 1) :
                 PrefixPathKey(loaded_urls[i]) = PrefixPathKey(loaded_urls[j])
                    => results[i] = "ok")
             => results[j] # "skipped"

\* C24 (as claimed): the list load_urls returns holds no URL twice.
C24_LoadUrlsDeduplicates ==
    ppc \in {"loop", "quit"} =>
        \A i, j \in 1..Len(loaded_urls) :
            i # j => loaded_urls[i] # loaded_urls[j]

\* C25: once threaded_crawler has returned, every submitted task is done
\* and the lock is free, no step changes all_urls or checked_sitemaps, and
\* what main writes is that set.
C25_StableAfterReturn ==
    /\ [](Returned => (\A i \in Futs : Done(i)) /\ lock = 0)
    /\ [][Returned => /\ all_urls' = all_urls
                      /\ checked_sitemaps' = checked_sitemaps]_vars
    /\ [](written => output = Sorted(all_urls))

\* C25 witness: threaded_crawler has returned early at the cap, main has not
\* written yet; one task was refused a leaf after the cap was reached and
\* another was rejected at the claim step for a URL nobody had claimed.
C25_Witness ==
    \E i, j \in Futs :
        /\ Returned
        /\ mpc = "crawl"
        /\ max_urls >= 1
        /\ AtCap
        /\ queue # <<>>
        /\ futures[i].claimed
        /\ ~(Range(DocUrlLocs(futures[i].url, web[futures[i].url]))
               \subseteq all_urls)
        /\ futures[i].fetched >= 1
        /\ Good(futures[i].url)
        /\ ~futures[j].claimed
        /\ futures[j].url \notin checked_sitemaps

\* The current attempt of task i fetched, decompressed and parsed its
\* document.
Decoded(i) ==
    /\ futures[i].claimed
    /\ futures[i].fetched >= 1
    /\ futures[i].pc \in {"url", "url_cs", "url_add", "nested", "done"}
    /\ ~futures[i].exc
    /\ Outcome(futures[i].url, web[futures[i].url], futures[i].attempt) = "ok"

\* C26: a failing attempt changes neither all_urls nor the frontier; every
\* collected leaf comes from a document whose attempt was decoded, and a
\* task without a decoded attempt never enters the leaf loop and returns no
\* nested sitemap.
C26_FailedAttemptAddsNothing ==
    /\ [](all_urls \subseteq LeavesOf({futures[i].url :
                                         i \in {j \in Futs : Decoded(j)}}))
    /\ [](\A i \in Futs :
            ~Decoded(i) =>
                /\ futures[i].pc \notin {"url", "url_cs", "url_add", "nested"}
                /\ futures[i].todo = <<>>
                /\ futures[i].result = <<>>)
    /\ [][\A i \in Futs :
            (/\ futures[i].pc = "fetch"
             /\ futures'[i].pc # "fetch"
             /\ Outcome(futures[i].url, web[futures[i].url],
                        futures[i].attempt) # "ok")
            => /\ all_urls' = all_urls
               /\ queue' = queue
               /\ futures'[i].result = <<>>]_vars

\* C26 witness: the run has returned with leaves collected from r2.xml while
\* the task of r1.xml used up both attempts on a malformed document; its
\* nested sitemap sub.xml.gz was never claimed.
C26_Witness ==
    \E i \in Futs :
        /\ Returned
        /\ retries = 2
        /\ futures[i].url = "r1.xml"
        /\ web["r1.xml"] = "malformed"
        /\ futures[i].claimed
        /\ futures[i].fetched = 2
        /\ futures[i].result = <<>>
        /\ all_urls = {"a", "b"}
        /\ "sub.xml.gz" \notin checked_sitemaps

====
